---- MODULE Spec2Model ----
(***************************************************************************)
(* Model of the dapp-projects scripts that move ETH and greetings between  *)
(* L1 and L2 (deposit-via-lib, deposit-via-inbox, withdraw-via-lib,        *)
(* withdraw-via-arbsys, the cross-chain greeter script) and of the         *)
(* DataFeedConsumer contract.                                              *)
(*                                                                         *)
(* A script is an async function main() followed by                        *)
(*     main().then(() => process.exit(0)).catch(e => {...; exit(1)})       *)
(* JavaScript runs the code between two awaits atomically, so every action *)
(* of a script is "the awaited call has resolved with some value; run the  *)
(* synchronous code up to, and including the issue of, the next awaited    *)
(* call".  The SDK, the providers and the chains are the environment: the  *)
(* value a call resolves with is drawn from a small set, and any awaited   *)
(* call may reject instead.                                                *)
(***************************************************************************)
EXTENDS Integers, Sequences, FiniteSets, TLC

VARIABLES
    program,      \* which script / contract this run executes
    pc,           \* "start", the call site main is awaiting, or "settled"
    inflight,     \* SDK / provider calls issued and not yet settled
    trace,        \* history of <<"call"|"ret"|"err"|"timeout"|"throw", call site>>
    out,          \* console output, in order: <<stream, template, hash>>
    mainPromise,  \* "pending" | "fulfilled" | "rejected"
    exitCode,     \* NotExited, 0 or 1
    mem,          \* the local variables of main
    elapsed,      \* ms spent so far in l2Provider.waitForTransaction
    ret           \* DataFeedConsumer: outcome of the last call

vars == <<program, pc, inflight, trace, out, mainPromise, exitCode, mem,
          elapsed, ret>>

----------------------------------------------------------------------------
(* Bounds of the model *)

MaxSeqNums == 2      \* longest sequence-number list the lookup returns
MaxWaitTicks == 14   \* ticks of the clock a wait without timeout is followed
MaxRoundId == 1      \* round ids 0..MaxRoundId are queried
MaxTimestamp == 2    \* timestamps 0..MaxTimestamp

----------------------------------------------------------------------------
(* ethers BigNumber: arbitrary precision, kept as two limbs base 10^9 *)

LimbBase == 1000000000

BN(h, l) == [hi |-> h, lo |-> l]

BNZero == BN(0, 0)

BNOne == BN(0, 1)

BNAdd(a, b) ==
    LET s == a.lo + b.lo
    IN  BN(a.hi + b.hi + (s \div LimbBase), s % LimbBase)

\* BigNumber.mul by a JavaScript number k
BNMul(a, k) ==
    LET p == a.lo * k
    IN  BN(a.hi * k + (p \div LimbBase), p % LimbBase)

BNLt(a, b) == a.hi < b.hi \/ (a.hi = b.hi /\ a.lo < b.lo)

\* the BigNumber one wei below a (a > 0); used to enumerate balances
BNPred(a) == IF a.lo = 0 THEN BN(a.hi - 1, LimbBase - 1) ELSE BN(a.hi, a.lo - 1)

RECURSIVE DigitsValue(_)
DigitsValue(ds) ==
    IF ds = <<>> THEN 0
    ELSE 10 * DigitsValue(SubSeq(ds, 1, Len(ds) - 1)) + ds[Len(ds)]

\* utils.parseEther("<whole>.<frac>"): the amount in wei, 18 decimals
ParseEther(whole, frac) ==
    LET padded == frac \o [i \in 1..(18 - Len(frac)) |-> 0]
    IN  BN(whole * LimbBase + DigitsValue(SubSeq(padded, 1, 9)),
           DigitsValue(SubSeq(padded, 10, 18)))

----------------------------------------------------------------------------
(* Configuration of the scripts *)

DepositLib == "deposit-via-lib"
DepositInbox == "deposit-via-inbox"
WithdrawLib == "withdraw-via-lib"
WithdrawArbSys == "withdraw-via-arbsys"
Greeter == "cross-chain-greeter"
Consumer == "DataFeedConsumer"

Scripts == {DepositLib, DepositInbox, WithdrawLib, WithdrawArbSys, Greeter}

Programs == Scripts \cup {Consumer}

\* parseEther("0.0001") in deposit-via-lib and deposit-via-inbox
ethToL2DepositAmount == ParseEther(0, <<0, 0, 0, 1>>)

\* parseEther("0.000001") in withdraw-via-lib, parseEther("0.001") in
\* withdraw-via-arbsys
ethFromL2WithdrawAmount(p) ==
    IF p = WithdrawLib THEN ParseEther(0, <<0, 0, 0, 0, 0, 1>>)
    ELSE ParseEther(0, <<0, 0, 1>>)

\* inbox.depositEth(10000000000000, ...): the hard-coded MaxSubmissionCost
depositMaxSubmissionCost == BN(10000, 0)

\* the third argument of l2Provider.waitForTransaction; the provider arms a
\* timer only for a timeout > 0, an omitted argument arms none
NoTimeout == 0

\* no script passes a timeout
WaitTimeoutMs_Omitted(p) == NoTimeout

WaitTimeoutMs(p) ==
    IF p \in {DepositLib, DepositInbox} THEN 1000 * 60 * 12 ELSE NoTimeout

\* const submissionPriceWei = _submissionPriceWei.mul(5)
SubmissionPriceMultiplier == 5

\* const maxGas = 100000
maxGas == 100000

newGreetingChars == 27   \* "Greeting from far, far away"

\* hexDataLength(defaultAbiCoder.encode(["string"], [s])) for a string of n
\* bytes: offset word, length word, data padded to whole 32-byte words
AbiEncodedStringLength(n) == 32 + 32 + 32 * ((n + 31) \div 32)

----------------------------------------------------------------------------
(* Values the environment can answer with *)

NotExited == -1

NoHash == ""

Hashes == {"0xaa", "0xbb"}

TickMs == 60000

Undefined == [defined |-> FALSE, items |-> <<>>]

SeqNumValues == {1, 2}

\* BigNumber[] | undefined
SeqNumResults ==
    {Undefined} \cup
    {[defined |-> TRUE, items |-> s] :
        s \in UNION {[1..n -> SeqNumValues] : n \in 0..MaxSeqNums}}

\* balances around the amount a, to the wei
BalancesAround(a) == {BNZero, BNPred(a), a, BNAdd(a, BNOne)}

DepositBalances == {BNZero, ethToL2DepositAmount}

\* base submission prices; 300000000 * 5 carries into the upper limb
SubmissionPrices == {BNZero, BN(0, 3), BN(0, 300000000), BN(2, 400000001)}

\* L2 gas prices; 20000 * maxGas carries into the upper limb
GasPrices == {BNZero, BN(0, 1), BN(0, 20000)}

\* ethers.constants.AddressZero, the temporary counterpart of both greeters
AddressZero == "0x00"

\* addresses the deployments can give the greeters
L1GreeterAddresses == {"0x1a"}

L2GreeterAddresses == {"0x2a", "0x2b"}

\* a greeter as the script knows it: its address, whether deployed() has
\* resolved, the counterpart it holds, and the counterpart passed to an
\* update transaction that is not yet confirmed
NoContract ==
    [address |-> AddressZero, deployed |-> FALSE, target |-> AddressZero,
     pendingTarget |-> AddressZero]

NoArgs == [maxSubmissionCost |-> BNZero, maxGas |-> 0, gasPriceBid |-> BNZero,
           value |-> BNZero]

InitMem ==
    [ l2WalletInitialEthBalance |-> BNZero,
      l2WalletUpdatedEthBalance |-> BNZero,
      rec              |-> NoHash,     \* L1 receipt: rec / setGreetingRec
      seqNumArr        |-> Undefined,  \* seqNumArr / inboxSeqNums
      seqNum           |-> [defined |-> FALSE, value |-> 0],
      l2TxHash         |-> NoHash,     \* l2TxHash / retryableTxnHash
      l2TxnRec         |-> NoHash,     \* l2TxnRec / l2TxRec / retryRec
      withdrawRec      |-> NoHash,
      newGreetingBytesLength |-> 0,
      _submissionPriceWei |-> BNZero,
      submissionPriceWei  |-> BNZero,
      gasPriceBid      |-> BNZero,
      callValue        |-> BNZero,
      sent             |-> NoArgs,     \* arguments of the L1 deposit / message
      l1Greeter        |-> NoContract, \* target is GreeterL1's l2Target
      l2Greeter        |-> NoContract ]\* target is GreeterL2's l1Target

----------------------------------------------------------------------------
(* DataFeedConsumer: the round data the aggregator can answer with *)

RoundIds == 0..MaxRoundId

Prices == {-1, 0, 1}

RoundData ==
    [roundID : RoundIds, price : Prices, startedAt : 0..1,
     timestamp : 0..MaxTimestamp, answeredInRound : RoundIds]

NoRound ==
    [roundID |-> 0, price |-> 0, startedAt |-> 0, timestamp |-> 0,
     answeredInRound |-> 0]

\* outcome of a call: what the aggregator answered and what the call returned
NoRet ==
    [fn |-> "", status |-> "none", roundId |-> 0, answered |-> FALSE,
     answer |-> NoRound, data |-> NoRound, reason |-> ""]

----------------------------------------------------------------------------
(* Initial state *)

Init ==
    /\ program \in Programs
    /\ pc = "start"
    /\ inflight = {}
    /\ trace = <<>>
    /\ out = <<>>
    /\ mainPromise = "pending"
    /\ exitCode = NotExited
    /\ mem = InitMem
    /\ elapsed = 0
    /\ ret = NoRet

----------------------------------------------------------------------------
(* Steps of an async main *)

Running == exitCode = NotExited /\ mainPromise = "pending"

RetEvent(completed) ==
    IF completed = "start" THEN <<>> ELSE << <<"ret", completed>> >>

\* the awaited call `completed` has resolved; main runs on, prints msgs,
\* leaves its locals as m, issues the call `next` and awaits it
Resume(p, completed, next, msgs, m) ==
    /\ program = p
    /\ Running
    /\ pc = completed
    /\ pc' = next
    /\ inflight' = (inflight \ {completed}) \cup {next}
    /\ trace' = trace \o RetEvent(completed) \o << <<"call", next>> >>
    /\ out' = out \o msgs
    /\ mem' = m
    /\ elapsed' = 0
    /\ UNCHANGED <<program, mainPromise, exitCode, ret>>

\* the awaited call has resolved and main runs to its end
Return(p, completed, msgs, m) ==
    /\ program = p
    /\ Running
    /\ pc = completed
    /\ pc' = "settled"
    /\ inflight' = inflight \ {completed}
    /\ trace' = trace \o RetEvent(completed)
    /\ out' = out \o msgs
    /\ mem' = m
    /\ mainPromise' = "fulfilled"
    /\ UNCHANGED <<program, exitCode, elapsed, ret>>

\* the awaited call has resolved and main throws new Error(...)
Throw(p, completed, msgs, m) ==
    /\ program = p
    /\ Running
    /\ pc = completed
    /\ pc' = "settled"
    /\ inflight' = inflight \ {completed}
    /\ trace' = trace \o RetEvent(completed) \o << <<"throw", completed>> >>
    /\ out' = out \o msgs
    /\ mem' = m
    /\ mainPromise' = "rejected"
    /\ UNCHANGED <<program, exitCode, elapsed, ret>>

\* the awaited call has resolved and main calls process.exit(code)
Exit(p, completed, msgs, m, code) ==
    /\ program = p
    /\ Running
    /\ pc = completed
    /\ pc' = "settled"
    /\ inflight' = inflight \ {completed}
    /\ trace' = trace \o RetEvent(completed)
    /\ out' = out \o msgs
    /\ mem' = m
    /\ exitCode' = code
    /\ UNCHANGED <<program, mainPromise, elapsed, ret>>

Log(text) == <<"stdout", text, NoHash>>

LogHash(stream, text, hash) == <<stream, text, hash>>

----------------------------------------------------------------------------
(* JavaScript values *)

\* v === undefined
IsUndefined(v) == ~v.defined

\* !v : undefined is falsy, every array (the empty one too) is truthy
Not(v) == ~v.defined

\* arr[0] : undefined when the array has no element
ElementZero(arr) ==
    IF Len(arr.items) > 0
    THEN [defined |-> TRUE, value |-> arr.items[1]]
    ELSE [defined |-> FALSE, value |-> 0]

----------------------------------------------------------------------------
(* Call sites *)

cBridgeInit == "Bridge.init"
cInitialBalance == "getL2EthBalance#initial"
cUpdatedBalance == "getL2EthBalance#updated"
cDepositETH == "bridge.depositETH"
cInboxDepositEth == "inbox.depositEth"
cDepositWait == "depositTx.wait"
cSeqNum == "bridge.getInboxSeqNumFromContractTransaction"
cCalcHash == "bridge.calculateL2TransactionHash"
cCalcRetryableHash == "bridge.calculateL2RetryableTransactionHash"
cWaitForTransaction == "l2Provider.waitForTransaction"
cWithdrawETH == "bridge.withdrawETH"
cArbSysWithdrawEth == "arbSys.withdrawEth"
cWithdrawWait == "withdrawTx.wait"
cGetWithdrawals == "getWithdrawalsInL2Transaction"

----------------------------------------------------------------------------
(* deposit-via-lib.ts *)

DL_Start ==
    Resume(DepositLib, "start", cBridgeInit,
           <<Log("Deposit Eth via arb-ts")>>, mem)

DL_AfterBridgeInit ==
    Resume(DepositLib, cBridgeInit, cInitialBalance, <<>>, mem)

DL_AfterInitialBalance ==
    \E b \in DepositBalances :
        Resume(DepositLib, cInitialBalance, cDepositETH, <<>>,
               [mem EXCEPT !.l2WalletInitialEthBalance = b,
                           !.sent.value = ethToL2DepositAmount])

\* depositTx.wait() is not awaited: the lookup is issued while it is in flight
DL_AfterDepositETH_NoAwait ==
    /\ program = DepositLib
    /\ Running
    /\ pc = cDepositETH
    /\ pc' = cSeqNum
    /\ inflight' = (inflight \ {cDepositETH}) \cup {cDepositWait, cSeqNum}
    /\ trace' = trace \o << <<"ret", cDepositETH>>, <<"call", cDepositWait>>,
                            <<"call", cSeqNum>> >>
    /\ UNCHANGED <<program, out, mainPromise, exitCode, mem, elapsed, ret>>

DL_AfterDepositETH ==
    Resume(DepositLib, cDepositETH, cDepositWait, <<>>, mem)

DL_AfterDepositWait ==
    \E h \in Hashes :
        Resume(DepositLib, cDepositWait, cSeqNum,
               <<LogHash("stderr", "deposit L1 receipt is:", h)>>,
               [mem EXCEPT !.rec = h])

DL_AfterSeqNum ==
    \E arr \in SeqNumResults :
        IF IsUndefined(arr)
        THEN Throw(DepositLib, cSeqNum, <<>>, [mem EXCEPT !.seqNumArr = arr])
        ELSE Resume(DepositLib, cSeqNum, cCalcHash,
                    <<Log("inbox sequence number is found!")>>,
                    [mem EXCEPT !.seqNumArr = arr,
                                !.seqNum = ElementZero(arr)])

DL_AfterCalcHash ==
    \E h \in Hashes :
        Resume(DepositLib, cCalcHash, cWaitForTransaction,
               <<LogHash("stdout", "l2TxHash is: ", h),
                 Log("waiting for l2 transaction:")>>,
               [mem EXCEPT !.l2TxHash = h])

\* the confirmation prints the predicted hash instead of the receipt's
DL_AfterWaitForTransaction_Predicted ==
    \E h \in Hashes :
        Resume(DepositLib, cWaitForTransaction, cUpdatedBalance,
               <<LogHash("stdout", "L2 transaction found!", mem.l2TxHash)>>,
               [mem EXCEPT !.l2TxnRec = h])

DL_AfterWaitForTransaction ==
    \E h \in Hashes :
        Resume(DepositLib, cWaitForTransaction, cUpdatedBalance,
               <<LogHash("stdout", "L2 transaction found!", h)>>,
               [mem EXCEPT !.l2TxnRec = h])

DL_AfterUpdatedBalance ==
    \E b \in DepositBalances :
        Return(DepositLib, cUpdatedBalance,
               <<Log("your L2 balance is updated from .. to ..")>>,
               [mem EXCEPT !.l2WalletUpdatedEthBalance = b])

DepositLibStep ==
    \/ DL_Start
    \/ DL_AfterBridgeInit
    \/ DL_AfterInitialBalance
    \/ DL_AfterDepositETH
    \/ DL_AfterDepositWait
    \/ DL_AfterSeqNum
    \/ DL_AfterCalcHash
    \/ DL_AfterWaitForTransaction
    \/ DL_AfterUpdatedBalance

----------------------------------------------------------------------------
(* deposit-via-inbox.ts *)

DI_Start ==
    Resume(DepositInbox, "start", cBridgeInit,
           <<Log("('Deposit Eth via the Inbox')")>>, mem)

DI_AfterBridgeInit ==
    Resume(DepositInbox, cBridgeInit, cInitialBalance, <<>>, mem)

DI_AfterInitialBalance ==
    \E b \in DepositBalances :
        Resume(DepositInbox, cInitialBalance, cInboxDepositEth, <<>>,
               [mem EXCEPT !.l2WalletInitialEthBalance = b,
                           !.sent.maxSubmissionCost = depositMaxSubmissionCost,
                           !.sent.value = ethToL2DepositAmount])

DI_AfterDepositEth ==
    Resume(DepositInbox, cInboxDepositEth, cDepositWait, <<>>, mem)

DI_AfterDepositWait ==
    \E h \in Hashes :
        Resume(DepositInbox, cDepositWait, cSeqNum,
               <<LogHash("stderr", "Deposit L1 receipt is:", h)>>,
               [mem EXCEPT !.rec = h])

DI_AfterSeqNum ==
    \E arr \in SeqNumResults :
        IF IsUndefined(arr)
        THEN Throw(DepositInbox, cSeqNum, <<>>, [mem EXCEPT !.seqNumArr = arr])
        ELSE Resume(DepositInbox, cSeqNum, cCalcHash,
                    <<Log("Inbox sequence number is found!")>>,
                    [mem EXCEPT !.seqNumArr = arr,
                                !.seqNum = ElementZero(arr)])

DI_AfterCalcHash ==
    \E h \in Hashes :
        Resume(DepositInbox, cCalcHash, cWaitForTransaction,
               <<LogHash("stderr", "L2 Tx Hash is", h),
                 Log("Waiting for L2 tx...")>>,
               [mem EXCEPT !.l2TxHash = h])

DI_AfterWaitForTransaction ==
    \E h \in Hashes :
        Resume(DepositInbox, cWaitForTransaction, cUpdatedBalance,
               <<LogHash("stdout", "L2 tx found:", h)>>,
               [mem EXCEPT !.l2TxnRec = h])

DI_AfterUpdatedBalance ==
    \E b \in DepositBalances :
        Return(DepositInbox, cUpdatedBalance,
               <<Log("Your L2 balance is updated from .. to ..")>>,
               [mem EXCEPT !.l2WalletUpdatedEthBalance = b])

DepositInboxStep ==
    \/ DI_Start
    \/ DI_AfterBridgeInit
    \/ DI_AfterInitialBalance
    \/ DI_AfterDepositEth
    \/ DI_AfterDepositWait
    \/ DI_AfterSeqNum
    \/ DI_AfterCalcHash
    \/ DI_AfterWaitForTransaction
    \/ DI_AfterUpdatedBalance

----------------------------------------------------------------------------
(* withdraw-via-lib.ts *)

WL_Start ==
    Resume(WithdrawLib, "start", cBridgeInit,
           <<Log("Withdraw Eth via arb-ts")>>, mem)

WL_AfterBridgeInit ==
    Resume(WithdrawLib, cBridgeInit, cInitialBalance, <<>>, mem)

\* the guard without its process.exit(1): the message is printed and main
\* goes on to the withdrawal
WL_AfterInitialBalance_NoExit ==
    \E b \in BalancesAround(ethFromL2WithdrawAmount(WithdrawLib)) :
        Resume(WithdrawLib, cInitialBalance, cWithdrawETH,
               IF BNLt(b, ethFromL2WithdrawAmount(WithdrawLib))
               THEN <<Log("Oops - not enough ether")>>
               ELSE <<Log("Wallet properly funded: initiating withdrawal now")>>,
               [mem EXCEPT !.l2WalletInitialEthBalance = b,
                           !.sent.value = ethFromL2WithdrawAmount(WithdrawLib)])

WL_AfterInitialBalance ==
    \E b \in BalancesAround(ethFromL2WithdrawAmount(WithdrawLib)) :
        IF BNLt(b, ethFromL2WithdrawAmount(WithdrawLib))
        THEN Exit(WithdrawLib, cInitialBalance,
                  <<Log("Oops - not enough ether")>>,
                  [mem EXCEPT !.l2WalletInitialEthBalance = b], 1)
        ELSE Resume(WithdrawLib, cInitialBalance, cWithdrawETH,
                    <<Log("Wallet properly funded: initiating withdrawal now")>>,
                    [mem EXCEPT !.l2WalletInitialEthBalance = b,
                                !.sent.value =
                                    ethFromL2WithdrawAmount(WithdrawLib)])

WL_AfterWithdrawETH ==
    Resume(WithdrawLib, cWithdrawETH, cWithdrawWait, <<>>, mem)

WL_AfterWithdrawWait ==
    \E h \in Hashes :
        Resume(WithdrawLib, cWithdrawWait, cGetWithdrawals, <<>>,
               [mem EXCEPT !.withdrawRec = h])

WL_AfterGetWithdrawals ==
    Return(WithdrawLib, cGetWithdrawals,
           <<LogHash("stdout", "Ether withdrawal initiated!", mem.withdrawRec),
             Log("Withdrawal data:"),
             Log("To to claim funds (after dispute period), see outbox-execute repo")>>,
           mem)

WithdrawLibStep ==
    \/ WL_Start
    \/ WL_AfterBridgeInit
    \/ WL_AfterInitialBalance
    \/ WL_AfterWithdrawETH
    \/ WL_AfterWithdrawWait
    \/ WL_AfterGetWithdrawals

----------------------------------------------------------------------------
(* withdraw-via-arbsys.ts *)

WA_Start ==
    Resume(WithdrawArbSys, "start", cInitialBalance,
           <<Log("Withdraw Eth via ArbSys")>>, mem)

WA_AfterInitialBalance ==
    \E b \in BalancesAround(ethFromL2WithdrawAmount(WithdrawArbSys)) :
        IF BNLt(b, ethFromL2WithdrawAmount(WithdrawArbSys))
        THEN Exit(WithdrawArbSys, cInitialBalance,
                  <<Log("Oops - not enough ether")>>,
                  [mem EXCEPT !.l2WalletInitialEthBalance = b], 1)
        ELSE Resume(WithdrawArbSys, cInitialBalance, cArbSysWithdrawEth,
                    <<Log("Wallet properly funded: initiating withdrawal now")>>,
                    [mem EXCEPT !.l2WalletInitialEthBalance = b,
                                !.sent.value =
                                    ethFromL2WithdrawAmount(WithdrawArbSys)])

WA_AfterWithdrawEth ==
    Resume(WithdrawArbSys, cArbSysWithdrawEth, cWithdrawWait, <<>>, mem)

WA_AfterWithdrawWait ==
    \E h \in Hashes :
        Resume(WithdrawArbSys, cWithdrawWait, cGetWithdrawals, <<>>,
               [mem EXCEPT !.withdrawRec = h])

WA_AfterGetWithdrawals ==
    Resume(WithdrawArbSys, cGetWithdrawals, cUpdatedBalance,
           <<LogHash("stdout", "Ether withdrawal initiated!", mem.withdrawRec),
             Log("Withdrawal data:"),
             Log("To claim funds (after dispute period), see outbox-execute repo")>>,
           mem)

WA_AfterUpdatedBalance ==
    \E b \in BalancesAround(ethFromL2WithdrawAmount(WithdrawArbSys)) :
        Return(WithdrawArbSys, cUpdatedBalance,
               <<Log("Your L2 balance is updated from .. to ..")>>,
               [mem EXCEPT !.l2WalletUpdatedEthBalance = b])

WithdrawArbSysStep ==
    \/ WA_Start
    \/ WA_AfterInitialBalance
    \/ WA_AfterWithdrawEth
    \/ WA_AfterWithdrawWait
    \/ WA_AfterGetWithdrawals
    \/ WA_AfterUpdatedBalance

----------------------------------------------------------------------------
(* The cross-chain greeter script *)

cL1Factory == "getContractFactory(GreeterL1)"
cL1Deploy == "L1Greeter.deploy"
cL1Deployed == "l1Greeter.deployed"
cL2Factory == "getContractFactory(GreeterL2)"
cL2Deploy == "L2Greeter.deploy"
cL2Deployed == "l2Greeter.deployed"
cUpdateL2Target == "l1Greeter.updateL2Target"
cUpdateL1TxWait == "updateL1Tx.wait"
cUpdateL1Target == "l2Greeter.updateL1Target"
cUpdateL2TxWait == "updateL2Tx.wait"
cCurrentGreet == "l2Greeter.greet#current"
cSubmissionPrice == "bridge.l2Bridge.getTxnSubmissionPrice"
cGasPrice == "bridge.l2Provider.getGasPrice"
cSetGreetingInL2 == "l1Greeter.setGreetingInL2"
cSetGreetingWait == "setGreetingTx.wait"
cUpdatedGreet == "l2Greeter.greet#updated"

GR_Start ==
    Resume(Greeter, "start", cBridgeInit, <<Log("Cross-chain Greeter")>>, mem)

GR_AfterBridgeInit ==
    Resume(Greeter, cBridgeInit, cL1Factory,
           <<Log("Deploying L1 Greeter")>>, mem)

GR_AfterL1Factory ==
    Resume(Greeter, cL1Factory, cL1Deploy, <<>>, mem)

\* L1Greeter.deploy("Hello world in L1", AddressZero, INBOX_ADDR)
GR_AfterL1Deploy ==
    \E a \in L1GreeterAddresses :
        Resume(Greeter, cL1Deploy, cL1Deployed, <<>>,
               [mem EXCEPT !.l1Greeter.address = a,
                           !.l1Greeter.target = AddressZero])

GR_AfterL1Deployed ==
    Resume(Greeter, cL1Deployed, cL2Factory,
           <<Log("GreeterL1 deployed to .."), Log("Deploying L2 Greeter")>>,
           [mem EXCEPT !.l1Greeter.deployed = TRUE])

GR_AfterL2Factory ==
    Resume(Greeter, cL2Factory, cL2Deploy, <<>>, mem)

\* L2Greeter.deploy("Hello world in L2", AddressZero)
GR_AfterL2Deploy ==
    \E a \in L2GreeterAddresses :
        Resume(Greeter, cL2Deploy, cL2Deployed, <<>>,
               [mem EXCEPT !.l2Greeter.address = a,
                           !.l2Greeter.target = AddressZero])

\* l1Greeter.updateL2Target(l2Greeter.address) is issued
GR_AfterL2Deployed ==
    Resume(Greeter, cL2Deployed, cUpdateL2Target,
           <<Log("GreeterL2 deployed to ..")>>,
           [mem EXCEPT !.l2Greeter.deployed = TRUE,
                       !.l1Greeter.pendingTarget = mem.l2Greeter.address])

GR_AfterUpdateL2Target ==
    Resume(Greeter, cUpdateL2Target, cUpdateL1TxWait, <<>>, mem)

\* the second update is left out: after updateL1Tx is confirmed main goes on
\* to read the greeting, and GreeterL2 keeps the zero address
GR_AfterUpdateL1TxWait_SkipL2Update ==
    Resume(Greeter, cUpdateL1TxWait, cCurrentGreet,
           <<Log("Counterpart contract addresses set in both greeters")>>,
           [mem EXCEPT !.l1Greeter.target = mem.l1Greeter.pendingTarget])

\* updateL1Tx is confirmed: GreeterL1 holds the address it was passed;
\* l2Greeter.updateL1Target(l1Greeter.address) is issued
GR_AfterUpdateL1TxWait ==
    Resume(Greeter, cUpdateL1TxWait, cUpdateL1Target, <<>>,
           [mem EXCEPT !.l1Greeter.target = mem.l1Greeter.pendingTarget,
                       !.l2Greeter.pendingTarget = mem.l1Greeter.address])

GR_AfterUpdateL1Target ==
    Resume(Greeter, cUpdateL1Target, cUpdateL2TxWait, <<>>, mem)

\* updateL2Tx is confirmed: GreeterL2 holds the address it was passed
GR_AfterUpdateL2TxWait ==
    Resume(Greeter, cUpdateL2TxWait, cCurrentGreet,
           <<Log("Counterpart contract addresses set in both greeters")>>,
           [mem EXCEPT !.l2Greeter.target = mem.l2Greeter.pendingTarget])

GR_AfterCurrentGreet ==
    Resume(Greeter, cCurrentGreet, cSubmissionPrice,
           <<Log("Current L2 greeting: .."),
             Log("Updating greeting from L1 to L2:")>>,
           [mem EXCEPT !.newGreetingBytesLength =
                           AbiEncodedStringLength(newGreetingChars) + 4])

\* the queried price is used as it is, the multiplication is left out
GR_AfterSubmissionPrice_Raw ==
    \E price \in SubmissionPrices :
        Resume(Greeter, cSubmissionPrice, cGasPrice,
               <<Log("Current retryable base submission price: .."),
                 Log("Time in seconds till price updates: ..")>>,
               [mem EXCEPT !._submissionPriceWei = price,
                           !.submissionPriceWei = price])

GR_AfterSubmissionPrice ==
    \E price \in SubmissionPrices :
        Resume(Greeter, cSubmissionPrice, cGasPrice,
               <<Log("Current retryable base submission price: .."),
                 Log("Time in seconds till price updates: ..")>>,
               [mem EXCEPT !._submissionPriceWei = price,
                           !.submissionPriceWei =
                               BNMul(price, SubmissionPriceMultiplier)])

\* the callvalue covers the L2 execution only, the submission price is left
\* out of the sum
GR_AfterGasPrice_GasOnly ==
    \E bid \in GasPrices :
        LET value == BNMul(bid, maxGas)
        IN  Resume(Greeter, cGasPrice, cSetGreetingInL2,
                   <<Log("L2 gas price: .."),
                     Log("Sending greeting to L2 with .. callValue for L2 fees:")>>,
                   [mem EXCEPT !.gasPriceBid = bid,
                               !.callValue = value,
                               !.sent = [maxSubmissionCost |->
                                             mem.submissionPriceWei,
                                         maxGas |-> maxGas,
                                         gasPriceBid |-> bid,
                                         value |-> value]])

\* the raw queried price is passed as the max submission cost, while the
\* callvalue is computed from the adjusted one
GR_AfterGasPrice_RawArgument ==
    \E bid \in GasPrices :
        LET value == BNAdd(mem.submissionPriceWei, BNMul(bid, maxGas))
        IN  Resume(Greeter, cGasPrice, cSetGreetingInL2,
                   <<Log("L2 gas price: .."),
                     Log("Sending greeting to L2 with .. callValue for L2 fees:")>>,
                   [mem EXCEPT !.gasPriceBid = bid,
                               !.callValue = value,
                               !.sent = [maxSubmissionCost |->
                                             mem._submissionPriceWei,
                                         maxGas |-> maxGas,
                                         gasPriceBid |-> bid,
                                         value |-> value]])

GR_AfterGasPrice ==
    \E bid \in GasPrices :
        LET value == BNAdd(mem.submissionPriceWei, BNMul(bid, maxGas))
        IN  Resume(Greeter, cGasPrice, cSetGreetingInL2,
                   <<Log("L2 gas price: .."),
                     Log("Sending greeting to L2 with .. callValue for L2 fees:")>>,
                   [mem EXCEPT !.gasPriceBid = bid,
                               !.callValue = value,
                               !.sent = [maxSubmissionCost |->
                                             mem.submissionPriceWei,
                                         maxGas |-> maxGas,
                                         gasPriceBid |-> bid,
                                         value |-> value]])

GR_AfterSetGreetingInL2 ==
    Resume(Greeter, cSetGreetingInL2, cSetGreetingWait, <<>>, mem)

GR_AfterSetGreetingWait ==
    \E h \in Hashes :
        Resume(Greeter, cSetGreetingWait, cSeqNum,
               <<LogHash("stdout", "Greeting txn confirmed on L1!", h)>>,
               [mem EXCEPT !.rec = h])

GR_AfterSeqNum ==
    \E arr \in SeqNumResults :
        IF Not(arr)
        THEN Throw(Greeter, cSeqNum, <<>>, [mem EXCEPT !.seqNumArr = arr])
        ELSE Resume(Greeter, cSeqNum, cCalcRetryableHash, <<>>,
                    [mem EXCEPT !.seqNumArr = arr,
                                !.seqNum = ElementZero(arr)])

GR_AfterCalcRetryableHash ==
    \E h \in Hashes :
        Resume(Greeter, cCalcRetryableHash, cWaitForTransaction,
               <<Log("Waiting for L2 txn .. (should take < 10 minutes ..")>>,
               [mem EXCEPT !.l2TxHash = h])

GR_AfterWaitForTransaction ==
    \E h \in Hashes :
        Resume(Greeter, cWaitForTransaction, cUpdatedGreet,
               <<LogHash("stdout", "L2 retryable txn executed", h)>>,
               [mem EXCEPT !.l2TxnRec = h])

GR_AfterUpdatedGreet ==
    Return(Greeter, cUpdatedGreet,
           <<Log("Updated L2 greeting: .."), Log("peace")>>, mem)

GreeterStep ==
    \/ GR_Start
    \/ GR_AfterBridgeInit
    \/ GR_AfterL1Factory
    \/ GR_AfterL1Deploy
    \/ GR_AfterL1Deployed
    \/ GR_AfterL2Factory
    \/ GR_AfterL2Deploy
    \/ GR_AfterL2Deployed
    \/ GR_AfterUpdateL2Target
    \/ GR_AfterUpdateL1TxWait
    \/ GR_AfterUpdateL1Target
    \/ GR_AfterUpdateL2TxWait
    \/ GR_AfterCurrentGreet
    \/ GR_AfterSubmissionPrice
    \/ GR_AfterGasPrice
    \/ GR_AfterSetGreetingInL2
    \/ GR_AfterSetGreetingWait
    \/ GR_AfterSeqNum
    \/ GR_AfterCalcRetryableHash
    \/ GR_AfterWaitForTransaction
    \/ GR_AfterUpdatedGreet

----------------------------------------------------------------------------
(* The environment of a script and its entry point *)

\* a rejected call is caught inside main and issued again
AwaitRejects_Retry ==
    /\ program \in Scripts
    /\ Running
    /\ \E c \in inflight :
        trace' = trace \o << <<"err", c>>, <<"call", c>> >>
    /\ UNCHANGED <<program, pc, inflight, out, mainPromise, exitCode, mem,
                   elapsed, ret>>

\* an awaited call rejects: await rethrows, main has no try/catch, so the
\* promise of main rejects
AwaitRejects ==
    /\ program \in Scripts
    /\ Running
    /\ \E c \in inflight :
        /\ inflight' = inflight \ {c}
        /\ trace' = Append(trace, <<"err", c>>)
    /\ pc' = "settled"
    /\ mainPromise' = "rejected"
    /\ UNCHANGED <<program, out, exitCode, mem, elapsed, ret>>

WaitingForL2 ==
    /\ program \in Scripts
    /\ Running
    /\ pc = cWaitForTransaction

\* time passes while the predicted transaction has not appeared on L2
\* (the clock is followed up to MaxWaitTicks ticks; where no timer is armed
\* nothing in the process depends on it, and main stays suspended in the
\* await until the provider settles the call)
Tick ==
    /\ WaitingForL2
    /\ elapsed < MaxWaitTicks * TickMs
    /\ WaitTimeoutMs(program) > 0 => elapsed < WaitTimeoutMs(program)
    /\ elapsed' =
          IF WaitTimeoutMs(program) > 0
             /\ elapsed + TickMs > WaitTimeoutMs(program)
          THEN WaitTimeoutMs(program)
          ELSE elapsed + TickMs
    /\ UNCHANGED <<program, pc, inflight, trace, out, mainPromise, exitCode,
                   mem, ret>>

\* the timer armed by waitForTransaction(hash, undefined, timeout) fires and
\* the wait rejects with a timeout error
WaitTimesOut ==
    /\ WaitingForL2
    /\ WaitTimeoutMs(program) > 0
    /\ elapsed >= WaitTimeoutMs(program)
    /\ inflight' = inflight \ {cWaitForTransaction}
    /\ trace' = Append(trace, <<"timeout", cWaitForTransaction>>)
    /\ pc' = "settled"
    /\ mainPromise' = "rejected"
    /\ UNCHANGED <<program, out, exitCode, mem, elapsed, ret>>

\* main().then(() => process.exit(0))
TopLevelThen ==
    /\ program \in Scripts
    /\ exitCode = NotExited
    /\ mainPromise = "fulfilled"
    /\ exitCode' = 0
    /\ UNCHANGED <<program, pc, inflight, trace, out, mainPromise, mem,
                   elapsed, ret>>

\* a catch handler that logs the error and exits with status 0
TopLevelCatch_ExitZero ==
    /\ program \in Scripts
    /\ exitCode = NotExited
    /\ mainPromise = "rejected"
    /\ out' = Append(out, <<"stderr", "error", NoHash>>)
    /\ exitCode' = 0
    /\ UNCHANGED <<program, pc, inflight, trace, mainPromise, mem, elapsed,
                   ret>>

\* .catch(error => { console.error(error); process.exit(1); })
TopLevelCatch ==
    /\ program \in Scripts
    /\ exitCode = NotExited
    /\ mainPromise = "rejected"
    /\ out' = Append(out, <<"stderr", "error", NoHash>>)
    /\ exitCode' = 1
    /\ UNCHANGED <<program, pc, inflight, trace, mainPromise, mem, elapsed,
                   ret>>

----------------------------------------------------------------------------
(* DataFeedConsumer.sol *)

\* priceFeed.latestRoundData() answers d (or reverts); the answer is returned
getLatestPrice ==
    /\ program = Consumer
    /\ \/ \E d \in RoundData :
            ret' = [fn |-> "getLatestPrice", status |-> "ok",
                    roundId |-> d.roundID, answered |-> TRUE, answer |-> d,
                    data |-> d, reason |-> ""]
       \/ ret' = [NoRet EXCEPT !.fn = "getLatestPrice", !.status = "revert",
                               !.reason = "priceFeed"]
    /\ UNCHANGED <<program, pc, inflight, trace, out, mainPromise, exitCode,
                   mem, elapsed>>

\* the answer is returned without the require on its timestamp
getHistoricalPrice_Unchecked ==
    /\ program = Consumer
    /\ \E _roundId \in RoundIds :
        \/ \E d \in RoundData :
            ret' = [fn |-> "getHistoricalPrice", status |-> "ok",
                    roundId |-> _roundId, answered |-> TRUE,
                    answer |-> d, data |-> d, reason |-> ""]
        \/ ret' = [NoRet EXCEPT !.fn = "getHistoricalPrice",
                                !.status = "revert", !.roundId = _roundId,
                                !.reason = "priceFeed"]
    /\ UNCHANGED <<program, pc, inflight, trace, out, mainPromise, exitCode,
                   mem, elapsed>>

\* priceFeed.getRoundData(_roundId) answers d (or reverts);
\* require(timestamp > 0, "Round not completed!")
getHistoricalPrice ==
    /\ program = Consumer
    /\ \E _roundId \in RoundIds :
        \/ \E d \in RoundData :
            IF d.timestamp > 0
            THEN ret' = [fn |-> "getHistoricalPrice", status |-> "ok",
                         roundId |-> _roundId, answered |-> TRUE,
                         answer |-> d, data |-> d, reason |-> ""]
            ELSE ret' = [fn |-> "getHistoricalPrice", status |-> "revert",
                         roundId |-> _roundId, answered |-> TRUE,
                         answer |-> d, data |-> NoRound,
                         reason |-> "Round not completed!"]
        \/ ret' = [NoRet EXCEPT !.fn = "getHistoricalPrice",
                                !.status = "revert", !.roundId = _roundId,
                                !.reason = "priceFeed"]
    /\ UNCHANGED <<program, pc, inflight, trace, out, mainPromise, exitCode,
                   mem, elapsed>>

----------------------------------------------------------------------------
(* Specification *)

Next ==
    \/ DepositLibStep
    \/ DepositInboxStep
    \/ WithdrawLibStep
    \/ WithdrawArbSysStep
    \/ GreeterStep
    \/ AwaitRejects
    \/ Tick
    \/ WaitTimesOut
    \/ TopLevelThen
    \/ TopLevelCatch
    \/ getLatestPrice
    \/ getHistoricalPrice

Spec == Init /\ [][Next]_vars

\* the clock advances, an armed timer fires, and the event loop runs the
\* handlers of a settled promise; nothing obliges the chains to answer
FairSpec ==
    /\ Spec
    /\ WF_vars(Tick)
    /\ WF_vars(WaitTimesOut)
    /\ WF_vars(TopLevelThen)
    /\ WF_vars(TopLevelCatch)

----------------------------------------------------------------------------
(* Observations on a run *)

Called(c) == \E i \in DOMAIN trace : trace[i] = <<"call", c>>

HasReturned(c) == \E i \in DOMAIN trace : trace[i] = <<"ret", c>>

Failure(e) == e[1] \in {"err", "timeout", "throw"}

Failed == \E i \in DOMAIN trace : Failure(trace[i])

TimesCalled(c) == Cardinality({i \in DOMAIN trace : trace[i] = <<"call", c>>})

WithdrawScripts == {WithdrawLib, WithdrawArbSys}

L1ToL2Scripts == {DepositLib, DepositInbox, Greeter}

----------------------------------------------------------------------------
(* C1: in both withdrawal scripts, once the initial L2 balance has been    *)
(* read and it is strictly below the configured withdrawal amount, the     *)
(* process has exited with status 1 and neither bridge.withdrawETH nor     *)
(* arbSys.withdrawEth has been called.                                     *)
C1_InsufficientBalanceExits ==
    \A p \in WithdrawScripts :
        ( /\ program = p
          /\ HasReturned(cInitialBalance)
          /\ BNLt(mem.l2WalletInitialEthBalance, ethFromL2WithdrawAmount(p)) )
        => ( /\ exitCode = 1
             /\ ~Called(cWithdrawETH)
             /\ ~Called(cArbSysWithdrawEth) )

\* withdraw-via-lib has read a balance one wei below the amount and exited
C1_Witness ==
    /\ program = WithdrawLib
    /\ HasReturned(cInitialBalance)
    /\ mem.l2WalletInitialEthBalance = BN(999, 999999999)
    /\ exitCode = 1

----------------------------------------------------------------------------
NoEntries(arr) == ~arr.defined \/ Len(arr.items) = 0

(* C2: in deposit-via-lib, deposit-via-inbox and the greeter script, when  *)
(* the sequence-number lookup has returned no entries (an absent result or *)
(* an empty list), main has thrown and the L2 transaction-hash prediction  *)
(* has not been called.                                                    *)
C2_NoEntriesThrowsBeforePrediction ==
    ( /\ program \in L1ToL2Scripts
      /\ HasReturned(cSeqNum)
      /\ NoEntries(mem.seqNumArr) )
    => ( /\ mainPromise = "rejected"
         /\ ~Called(cCalcHash)
         /\ ~Called(cCalcRetryableHash) )

----------------------------------------------------------------------------
(* C3: in every script an error inside main (a rejected awaited call, a    *)
(* timeout, an explicit throw) rejects the promise of main; a process that *)
(* exits after that has logged the error last and exits with status 1, and *)
(* it does come to exit with status 1; status 0 is the exit status only    *)
(* when main completed without any error.                                  *)
C3_Handled ==
    /\ Failed => mainPromise = "rejected"
    /\ (mainPromise = "rejected" /\ exitCode # NotExited)
          => (exitCode = 1 /\ out[Len(out)] = <<"stderr", "error", NoHash>>)
    /\ exitCode = 0 => (mainPromise = "fulfilled" /\ ~Failed /\ inflight = {})

C3_ErrorsExitWithOne ==
    /\ []C3_Handled
    /\ (program \in Scripts /\ Failed) ~> (exitCode = 1)

\* bridge.depositETH rejected and the process exited with status 1
C3_Witness ==
    /\ program = DepositLib
    /\ \E i \in DOMAIN trace : trace[i] = <<"err", cDepositETH>>
    /\ exitCode = 1

----------------------------------------------------------------------------
\* the transaction hash the run resolved: the hash of the L2 receipt, in the
\* withdrawal scripts the hash of the withdrawal receipt
ResolvedHash ==
    IF program \in WithdrawScripts THEN mem.withdrawRec ELSE mem.l2TxnRec

ConfirmationText ==
    CASE program = DepositLib -> "L2 transaction found!"
      [] program = DepositInbox -> "L2 tx found:"
      [] program = Greeter -> "L2 retryable txn executed"
      [] OTHER -> "Ether withdrawal initiated!"

(* C4 as stated: after an exit with status 0 the last message printed      *)
(* contains the resolved transaction hash.                                 *)
C4_LastMessageHasHash ==
    (program \in Scripts /\ exitCode = 0)
        => ( /\ ResolvedHash \in Hashes
             /\ out[Len(out)][3] = ResolvedHash )

(* C4 as amended: after an exit with status 0 the confirmation containing  *)
(* the resolved transaction hash has been printed, and it is not the last  *)
(* message: the last message printed carries no hash.                      *)
C4_ConfirmationPrintedBeforeExit ==
    (program \in Scripts /\ exitCode = 0)
        => ( /\ ResolvedHash \in Hashes
             /\ \E i \in 1..(Len(out) - 1) :
                    /\ out[i][2] = ConfirmationText
                    /\ out[i][3] = ResolvedHash
             /\ out[Len(out)][3] = NoHash )

\* deposit-via-lib exited with 0 after the L2 receipt carried a hash other
\* than the predicted one
C4_Witness ==
    /\ program = DepositLib
    /\ exitCode = 0
    /\ mem.l2TxnRec = "0xbb"
    /\ mem.l2TxHash = "0xaa"

----------------------------------------------------------------------------
\* p + p + p + p + p
FiveTimes(p) == BNAdd(p, BNAdd(p, BNAdd(p, BNAdd(p, p))))

WellFormed(a) == a.hi >= 0 /\ a.lo >= 0 /\ a.lo < LimbBase

(* C5: in the greeter script, once getTxnSubmissionPrice has answered P,   *)
(* the adjusted submission price is exactly P + P + P + P + P, and that is *)
(* the max submission cost passed to setGreetingInL2.                      *)
C5_AdjustedPriceIsFiveTimes ==
    (program = Greeter /\ HasReturned(cSubmissionPrice))
        => ( /\ mem.submissionPriceWei = FiveTimes(mem._submissionPriceWei)
             /\ WellFormed(mem.submissionPriceWei)
             /\ Called(cSetGreetingInL2) =>
                    mem.sent.maxSubmissionCost
                        = FiveTimes(mem._submissionPriceWei) )

\* 0.3 gwei was answered and 1.5 gwei is sent as the max submission cost
C5_Witness ==
    /\ program = Greeter
    /\ Called(cSetGreetingInL2)
    /\ mem._submissionPriceWei = BN(0, 300000000)
    /\ mem.sent.maxSubmissionCost = BN(1, 500000000)

----------------------------------------------------------------------------
\* g * 100000, multiplied out in three steps
Times100000(g) == BNMul(BNMul(BNMul(g, 100), 100), 10)

(* C6: in the greeter script, the value sent with setGreetingInL2 is       *)
(* exactly the adjusted submission price plus the gas price bid times the  *)
(* fixed maxGas of 100000.                                                 *)
C6_CallValueIsSum ==
    (program = Greeter /\ Called(cSetGreetingInL2))
        => ( /\ mem.callValue = BNAdd(mem.submissionPriceWei,
                                      Times100000(mem.gasPriceBid))
             /\ WellFormed(mem.callValue)
             /\ mem.sent.value = mem.callValue
             /\ mem.sent.maxGas = 100000 )

\* 1.5 gwei of submission price and a bid of 20000 wei give 3.5 gwei
C6_Witness ==
    /\ program = Greeter
    /\ Called(cSetGreetingInL2)
    /\ mem.submissionPriceWei = BN(1, 500000000)
    /\ mem.gasPriceBid = BN(0, 20000)
    /\ mem.sent.value = BN(3, 500000000)

----------------------------------------------------------------------------
\* every occurrence of event b in the trace comes after an occurrence of a
Precedes(a, b) ==
    \A j \in DOMAIN trace :
        trace[j] = b => \E i \in 1..(j - 1) : trace[i] = a

(* C7: in every script at most one SDK / provider call is in flight, a     *)
(* call is issued only right after the call before it has returned, and    *)
(* the L1 receipt is obtained before the sequence-number lookup, the       *)
(* lookup returns before the hash prediction, the prediction before the    *)
(* wait for the L2 transaction, and that wait before the final read.       *)
C7_Sequential ==
    program \in Scripts =>
        /\ Cardinality(inflight) <= 1
        /\ \A j \in DOMAIN trace :
              (trace[j][1] = "call" /\ j > 1)
                  => ( /\ trace[j - 1][1] = "ret"
                       /\ j > 2
                       /\ trace[j - 2] = <<"call", trace[j - 1][2]>> )
        /\ \A w \in {cDepositWait, cSetGreetingWait} :
              Called(w) => Precedes(<<"ret", w>>, <<"call", cSeqNum>>)
        /\ (Called(cDepositWait) \/ Called(cSetGreetingWait))
              \/ ~Called(cSeqNum)
        /\ \A h \in {cCalcHash, cCalcRetryableHash} :
              /\ Precedes(<<"ret", cSeqNum>>, <<"call", h>>)
              /\ Called(h) =>
                    Precedes(<<"ret", h>>, <<"call", cWaitForTransaction>>)
        /\ (Called(cCalcHash) \/ Called(cCalcRetryableHash))
              \/ ~Called(cWaitForTransaction)
        /\ \A r \in {cUpdatedBalance, cUpdatedGreet} :
              program \in L1ToL2Scripts =>
                  Precedes(<<"ret", cWaitForTransaction>>, <<"call", r>>)

\* deposit-via-inbox has come to its final balance read
C7_Witness ==
    /\ program = DepositInbox
    /\ Called(cUpdatedBalance)
    /\ HasReturned(cWaitForTransaction)

----------------------------------------------------------------------------
WaitOver == exitCode = 1 \/ HasReturned(cWaitForTransaction)

(* C8 as stated: in deposit-via-lib, deposit-via-inbox and the greeter     *)
(* script a wait for the predicted L2 transaction always ends: the         *)
(* transaction is found or the process exits with status 1.                *)
C8_EveryWaitEnds ==
    (program \in L1ToL2Scripts /\ WaitingForL2) ~> WaitOver

(* C8 as amended: in deposit-via-lib and deposit-via-inbox the wait never  *)
(* lasts longer than 12 minutes, and it always ends: the transaction is    *)
(* found or the process exits with status 1.                               *)
C8_DepositWaitEnds ==
    /\ []((program \in {DepositLib, DepositInbox} /\ WaitingForL2)
              => elapsed <= 720000)
    /\ (program \in {DepositLib, DepositInbox} /\ WaitingForL2) ~> WaitOver

\* deposit-via-lib gave up after the timeout and exited with status 1
C8_Witness ==
    /\ program = DepositLib
    /\ \E i \in DOMAIN trace : trace[i] = <<"timeout", cWaitForTransaction>>
    /\ elapsed = 720000
    /\ exitCode = 1

----------------------------------------------------------------------------
StateChangingCalls ==
    {cDepositETH, cInboxDepositEth, cWithdrawETH, cArbSysWithdrawEth,
     cSetGreetingInL2, cL1Deploy, cL2Deploy, cUpdateL2Target, cUpdateL1Target}

(* C9: in a run every state-changing call is issued at most once, and no   *)
(* call is issued after the first failure.                                 *)
C9_NoRetry ==
    program \in Scripts =>
        /\ \A c \in StateChangingCalls : TimesCalled(c) <= 1
        /\ \A i \in DOMAIN trace :
              Failure(trace[i]) =>
                  \A j \in (i + 1)..Len(trace) : trace[j][1] # "call"

\* inbox.depositEth failed and the process exited without another call
C9_Witness ==
    /\ program = DepositInbox
    /\ \E i \in DOMAIN trace :
          i = Len(trace) /\ trace[i] = <<"err", cInboxDepositEth>>
    /\ exitCode = 1

----------------------------------------------------------------------------
(* C10: when the aggregator answers getHistoricalPrice's query with a      *)
(* round of timestamp 0 the call reverts with "Round not completed!", and  *)
(* when it answers with a timestamp > 0 the call returns the five values   *)
(* of the answer unchanged.                                                *)
C10_IncompleteRoundReverts ==
    (ret.fn = "getHistoricalPrice" /\ ret.answered)
        => /\ ret.answer.timestamp = 0
                 => (ret.status = "revert"
                        /\ ret.reason = "Round not completed!")
           /\ ret.answer.timestamp > 0
                 => (ret.status = "ok" /\ ret.data = ret.answer)

\* a round of timestamp 0 was answered and the call reverted
C10_Witness ==
    /\ ret.fn = "getHistoricalPrice"
    /\ ret.answered
    /\ ret.answer.timestamp = 0
    /\ ret.answer.price = 1
    /\ ret.status = "revert"

----------------------------------------------------------------------------
(* C11: in the greeter script, when setGreetingInL2 has been issued both   *)
(* greeters are deployed, both update transactions have been confirmed     *)
(* before it, GreeterL1 holds the L2 greeter's address and GreeterL2 the   *)
(* L1 greeter's, and neither holds the zero address.                       *)
C11_TargetsSetBeforeMessage ==
    (program = Greeter /\ Called(cSetGreetingInL2))
        => ( /\ mem.l1Greeter.deployed
             /\ mem.l2Greeter.deployed
             /\ Precedes(<<"ret", cL1Deployed>>, <<"call", cSetGreetingInL2>>)
             /\ Precedes(<<"ret", cL2Deployed>>, <<"call", cSetGreetingInL2>>)
             /\ Precedes(<<"ret", cUpdateL1TxWait>>,
                         <<"call", cSetGreetingInL2>>)
             /\ Precedes(<<"ret", cUpdateL2TxWait>>,
                         <<"call", cSetGreetingInL2>>)
             /\ mem.l1Greeter.target = mem.l2Greeter.address
             /\ mem.l2Greeter.target = mem.l1Greeter.address
             /\ mem.l1Greeter.target # AddressZero
             /\ mem.l2Greeter.target # AddressZero )

\* the message was sent with the L2 greeter deployed at the second address
C11_Witness ==
    /\ program = Greeter
    /\ Called(cSetGreetingInL2)
    /\ mem.l2Greeter.address = "0x2b"
    /\ mem.l1Greeter.target = "0x2b"
    /\ mem.l2Greeter.target = "0x1a"

----------------------------------------------------------------------------
\* what the arguments of setGreetingInL2 declare: the max submission cost
\* plus maxGas times the gas price bid
DeclaredCost ==
    BNAdd(mem.sent.maxSubmissionCost,
          BNMul(mem.sent.gasPriceBid, mem.sent.maxGas))

(* C12: in the greeter script, the max-submission-cost argument of         *)
(* setGreetingInL2 is the adjusted price (the raw queried price only when  *)
(* that is 0), the gas price bid argument is the queried bid, and the      *)
(* value sent equals, and so never falls short of, the max submission cost *)
(* plus maxGas times the gas price bid as the arguments declare them.      *)
C12_ValueCoversDeclaredFees ==
    (program = Greeter /\ Called(cSetGreetingInL2))
        => ( /\ mem.sent.maxSubmissionCost = mem.submissionPriceWei
             /\ mem._submissionPriceWei # BNZero
                   => mem.sent.maxSubmissionCost # mem._submissionPriceWei
             /\ BNLt(mem._submissionPriceWei, mem.sent.maxSubmissionCost)
                   \/ mem._submissionPriceWei = BNZero
             /\ mem.sent.gasPriceBid = mem.gasPriceBid
             /\ mem.sent.value = DeclaredCost
             /\ ~BNLt(mem.sent.value, DeclaredCost) )

\* a raw price of 3 wei and a bid of 1 wei: 15 wei declared, 100015 sent
C12_Witness ==
    /\ program = Greeter
    /\ Called(cSetGreetingInL2)
    /\ mem._submissionPriceWei = BN(0, 3)
    /\ mem.sent.maxSubmissionCost = BN(0, 15)
    /\ mem.sent.gasPriceBid = BN(0, 1)
    /\ mem.sent.value = BN(0, 100015)

====
